---- MODULE Spec2Model ----
(***************************************************************************)
(* Model of smartfloat.py (Smart Float Manager for Hyprland): the geometry *)
(* expression evaluator (safe_eval, compute_px) and the multi-step apply   *)
(* flow (apply_preset) running against an asynchronous compositor.         *)
(*                                                                         *)
(* Optional values (Python None) are sequences: <<>> is None, <<v>> is v.  *)
(* Numbers inside the evaluator are exact rationals [n, d] tagged with     *)
(* f = TRUE when Python holds them as a float.                             *)
(***************************************************************************)
EXTENDS Integers, Sequences, FiniteSets, TLC

None == <<>>
Some(v) == <<v>>
IsNone(o) == o = <<>>
Val(o) == o[1]

Abs(a) == IF a < 0 THEN -a ELSE a
Max(a, b) == IF a >= b THEN a ELSE b
Min(a, b) == IF a <= b THEN a ELSE b

\* Euclid's algorithm
GCD(a, b) ==
    LET g[p \in Nat \X Nat] == IF p[2] = 0 THEN p[1] ELSE g[<<p[2], p[1] % p[2]>>]
    IN  g[<<a, b>>]

(* ---------- numbers of the evaluator ---------- *)
Err == [ok |-> FALSE, n |-> 0, d |-> 1, f |-> FALSE]
Rat(n, d, f) ==
    LET norm[p \in Int \X Int] ==
            LET s == IF p[2] < 0 THEN -1 ELSE 1
                g == GCD(Abs(p[1]), Abs(p[2]))
            IN  [ok |-> TRUE, n |-> (s * p[1]) \div g,
                 d |-> (s * p[2]) \div g, f |-> f]
    IN  norm[<<n, d>>]
\* the values of the evaluator: n/d in lowest terms, f for a float
Number == [ok : BOOLEAN, n : Int, d : Int, f : BOOLEAN]
PyInt(n) == Rat(n, 1, FALSE)
Floor(v) == v.n \div v.d

RECURSIVE IntPow(_, _)
IntPow(b, e) == IF e = 0 THEN 1 ELSE b * IntPow(b, e - 1)

\* Python's round() on a float: nearest integer, ties to the even one
PyRound(x) ==
    LET round[v \in Number] ==
            LET q == Floor(v)
                r == v.n - q * v.d
            IN  IF 2 * r < v.d THEN q
                ELSE IF 2 * r > v.d THEN q + 1
                ELSE IF q % 2 = 0 THEN q ELSE q + 1
    IN  round[x]

(* ---------- expression syntax ---------- *)
\* An expression string is held as its syntax tree.  Leaves:
\*   Num (literal n/d, d = 1 for an integer literal), Pct (N%), Width,
\*   Height, Name, Str (string literal), Call, Compare, Malformed (does not
\*   parse), Empty (the empty string).  Inner nodes: BinOp, UnaryOp.
Num(n) == [k |-> "Num", n |-> n, d |-> 1]
Dec(n, d) == [k |-> "Num", n |-> n, d |-> d]
Pct(n) == [k |-> "Pct", n |-> n, d |-> 1]
Width == [k |-> "Width"]
Height == [k |-> "Height"]
Name(id) == [k |-> "Name", id |-> id]
Str(s) == [k |-> "Str", s |-> s]
Call(id) == [k |-> "Call", id |-> id]
Compare(l, r) == [k |-> "Compare", l |-> l, r |-> r]
Malformed == [k |-> "Malformed"]
Empty == [k |-> "Empty"]
BinOp(op, l, r) == [k |-> "BinOp", op |-> op, l |-> l, r |-> r]
UnaryOp(op, e) == [k |-> "UnaryOp", op |-> op, e |-> e]

ALLOWED_NODES ==
    {"Expression", "BinOp", "UnaryOp", "Num", "Constant", "Add", "Sub", "Mult",
     "Div", "Pow", "USub", "UAdd", "Mod", "FloorDiv", "LShift", "RShift"}

\* the class ast gives a node of the tree
NodeClass(e) ==
    CASE e.k = "Num" -> "Constant"
      [] e.k = "Str" -> "Constant"
      [] e.k = "BinOp" -> "BinOp"
      [] e.k = "UnaryOp" -> "UnaryOp"
      [] e.k = "Name" -> "Name"
      [] e.k = "Call" -> "Call"
      [] e.k = "Compare" -> "Compare"
      [] OTHER -> "Name"

\* for n in ast.walk(node): isinstance(n, ALLOWED_NODES)
RECURSIVE WalkAllowed(_)
WalkAllowed(e) ==
    /\ NodeClass(e) \in ALLOWED_NODES
    /\ CASE e.k = "BinOp" -> /\ e.op \in ALLOWED_NODES
                             /\ WalkAllowed(e.l)
                             /\ WalkAllowed(e.r)
         [] e.k = "UnaryOp" -> e.op \in ALLOWED_NODES /\ WalkAllowed(e.e)
         [] OTHER -> TRUE

\* one Python binary operation on two evaluated operands
PyBinOp(op, x, y) ==
    LET binop[a \in Number, b \in Number] ==
            LET fl == a.f \/ b.f
            IN  CASE op = "Add" -> Rat(a.n * b.d + b.n * a.d, a.d * b.d, fl)
                  [] op = "Sub" -> Rat(a.n * b.d - b.n * a.d, a.d * b.d, fl)
                  [] op = "Mult" -> Rat(a.n * b.n, a.d * b.d, fl)
                  [] op = "Div" -> IF b.n = 0 THEN Err
                                   ELSE Rat(a.n * b.d, a.d * b.n, TRUE)
                  [] op = "FloorDiv" ->
                        IF b.n = 0 THEN Err
                        ELSE Rat(Floor(Rat(a.n * b.d, a.d * b.n, fl)), 1, fl)
                  [] op = "Mod" ->
                        IF b.n = 0 THEN Err
                        ELSE LET q == Floor(Rat(a.n * b.d, a.d * b.n, fl))
                             IN  Rat(a.n * b.d - q * b.n * a.d, a.d * b.d, fl)
                  [] op = "Pow" ->
                        \* integer exponents only (the expressions of the model)
                        IF b.d # 1 THEN Err
                        ELSE IF b.n >= 0
                             THEN Rat(IntPow(a.n, b.n), IntPow(a.d, b.n), fl)
                             ELSE IF a.n = 0 THEN Err
                                  ELSE Rat(IntPow(a.d, -b.n),
                                           IntPow(a.n, -b.n), TRUE)
                  [] op = "LShift" ->
                        IF fl \/ b.n < 0 THEN Err
                        ELSE PyInt(a.n * IntPow(2, b.n))
                  [] op = "RShift" ->
                        IF fl \/ b.n < 0 THEN Err
                        ELSE PyInt(a.n \div IntPow(2, b.n))
                  [] OTHER -> Err
    IN  binop[x, y]

\* a str value of the evaluator
PyStr(s) == [ok |-> TRUE, s |-> s]
IsStr(v) == "s" \in DOMAIN v

RECURSIVE Repeat(_, _)
Repeat(s, n) == IF n <= 0 THEN "" ELSE s \o Repeat(s, n - 1)

\* a Python binary operation with a str operand (no operand of the model
\* holds a % format): str + str, str * int and int * str give a str,
\* everything else raises TypeError
PyStrOp(op, a, b) ==
    IF op = "Add" /\ IsStr(a) /\ IsStr(b) THEN PyStr(a.s \o b.s)
    ELSE IF op = "Mult" /\ IsStr(a) /\ ~IsStr(b) /\ ~b.f
         THEN PyStr(Repeat(a.s, b.n))
    ELSE IF op = "Mult" /\ IsStr(b) /\ ~IsStr(a) /\ ~a.f
         THEN PyStr(Repeat(b.s, a.n))
    ELSE Err

\* eval(compile(node)) of a tree that passed the walk; Err is a raised
\* exception
RECURSIVE PyEval(_)
PyEval(e) ==
    CASE e.k = "Num" -> Rat(e.n, e.d, e.d # 1)
      [] e.k = "Str" -> PyStr(e.s)
      [] e.k = "BinOp" ->
            LET a == PyEval(e.l)
                b == PyEval(e.r)
            IN  IF ~(a.ok /\ b.ok) THEN Err
                ELSE IF IsStr(a) \/ IsStr(b) THEN PyStrOp(e.op, a, b)
                ELSE PyBinOp(e.op, a, b)
      [] e.k = "UnaryOp" ->
            LET a == PyEval(e.e)
            IN  IF ~a.ok \/ IsStr(a) THEN Err
                ELSE IF e.op = "USub" THEN Rat(-a.n, a.d, a.f)
                ELSE a
      [] OTHER -> Err

\* float(s) for the str values of the model: a decimal numeral converts,
\* any other text raises ValueError
PyFloatOfStr(s) ==
    CASE s = "5" -> Some(Rat(5, 1, TRUE))
      [] s = "55" -> Some(Rat(55, 1, TRUE))
      [] OTHER -> None

\* whether safe_eval hands the expression to eval(): it parsed and every
\* node of the tree is in ALLOWED_NODES
ReachesEval(e) == e.k # "Malformed" /\ WalkAllowed(e)

\* safe_eval: Optional[float]
safe_eval(e) ==
    IF ~ReachesEval(e) THEN None
    ELSE LET v == PyEval(e)
         IN  IF ~v.ok THEN None
             ELSE IF IsStr(v) THEN PyFloatOfStr(v.s)
             ELSE Some(Rat(v.n, v.d, TRUE))

\* the textual rewriting of compute_px: N% -> (N/100*mon_dim),
\* width/height -> win_dim
RECURSIVE Rewrite(_, _, _)
Rewrite(e, mon_dim, win_dim) ==
    CASE e.k = "Pct" ->
            BinOp("Mult", BinOp("Div", Dec(e.n, e.d), Num(100)), Num(mon_dim))
      [] e.k = "Width" -> Num(win_dim)
      [] e.k = "Height" -> Num(win_dim)
      [] e.k = "BinOp" ->
            BinOp(e.op, Rewrite(e.l, mon_dim, win_dim),
                  Rewrite(e.r, mon_dim, win_dim))
      [] e.k = "UnaryOp" -> UnaryOp(e.op, Rewrite(e.e, mon_dim, win_dim))
      [] OTHER -> e

\* bug variant: the word before the percentage is not looked at
IsShorthand_AnyWord(e, word) ==
    /\ e.k = "BinOp"
    /\ e.op = "Sub"
    /\ e.l.k = "Name"
    /\ e.r.k = "Pct"

\* re.fullmatch(r"<word>-([0-9]+(?:\.[0-9]+)?)%", expr)
IsShorthand(e, word) ==
    /\ e.k = "BinOp"
    /\ e.op = "Sub"
    /\ e.l = Name(word)
    /\ e.r.k = "Pct"

\* (mon_dim - win_dim) - pct / 100.0 * mon_dim, rounded
ShorthandPx(e, mon_dim, win_dim) ==
    PyRound(Rat((mon_dim - win_dim) * 100 * e.r.d - e.r.n * mon_dim,
                100 * e.r.d, TRUE))

\* compute_px: Optional[int]
compute_px(expr, axis, mon_dim, win_dim) ==
    IF expr.k = "Empty" THEN None
    ELSE IF expr.k = "Width" THEN Some(win_dim)
    ELSE IF expr.k = "Height" THEN Some(win_dim)
    ELSE IF IsShorthand(expr, "right") /\ axis = "x"
         THEN Some(ShorthandPx(expr, mon_dim, win_dim))
    ELSE IF IsShorthand(expr, "bottom") /\ axis = "y"
         THEN Some(ShorthandPx(expr, mon_dim, win_dim))
    ELSE IF expr.k = "Pct"
         THEN Some(PyRound(Rat(expr.n * mon_dim, 100 * expr.d, TRUE)))
    ELSE IF expr.k = "Num" /\ expr.d = 1 /\ expr.n >= 0 THEN Some(expr.n)
    ELSE LET val == safe_eval(Rewrite(expr, mon_dim, win_dim))
         IN  IF IsNone(val) THEN None ELSE Some(PyRound(Val(val)))

\* whether compute_px gets as far as its generic branch, the only caller of
\* safe_eval
Generic(expr, axis) ==
    /\ expr.k \notin {"Empty", "Width", "Height", "Pct"}
    /\ ~(IsShorthand(expr, "right") /\ axis = "x")
    /\ ~(IsShorthand(expr, "bottom") /\ axis = "y")
    /\ ~(expr.k = "Num" /\ expr.d = 1 /\ expr.n >= 0)

\* whether a call of compute_px runs eval() on the expression
Evaluated(expr, axis, mon_dim, win_dim) ==
    /\ Generic(expr, axis)
    /\ ReachesEval(Rewrite(expr, mon_dim, win_dim))

(* ---------- presets ---------- *)
BUILTIN_PRESETS ==
    [big |-> [width |-> Pct(70), height |-> Pct(70), anchor |-> "center",
              snap |-> "true"],
     bottomleft |-> [x |-> Pct(5), y |-> Pct(80), snap |-> "true"],
     center |-> [anchor |-> "center"]]

\* contents of smartfloat.conf as load_presets_from_cfg returns them: no
\* file gives the empty dict
NoCfg == <<>>
UserCfg ==
    [big |-> [snap |-> "false"],
     rightfloat |-> [width |-> Pct(25), height |-> Pct(90),
                     x |-> BinOp("Sub", Pct(95), Width), y |-> Pct(5),
                     snap |-> "true", anchor |-> "center"],
     onlyw |-> [width |-> Num(640), snap |-> "True"],
     xonly |-> [x |-> Num(100)],
     topright |-> [anchor |-> "right", y |-> Num(0), snap |-> "true"],
     bottom |-> [anchor |-> "bottom"],
     edge |-> [x |-> BinOp("Sub", Name("right"), Pct(5)),
               y |-> BinOp("Sub", Name("bottom"), Pct(5))],
     badx |-> [x |-> Name("foo"), anchor |-> "center"],
     bady |-> [y |-> BinOp("Div", Num(1), Num(0)), anchor |-> "bottom",
               height |-> Pct(50)],
     badw |-> [width |-> Call("__import__"), height |-> Malformed,
               x |-> Num(10)],
     shrink |-> [width |-> BinOp("Sub", Pct(50), Width), snap |-> "true"],
     left |-> [x |-> UnaryOp("USub", Num(40)), anchor |-> "top"],
     snaponly |-> [snap |-> "true"],
     half |-> [width |-> BinOp("Div", Width, Num(2)), height |-> Height]]
CfgFiles == {NoCfg, UserCfg}
PresetNames == DOMAIN BUILTIN_PRESETS \cup DOMAIN UserCfg \cup {"nosuch"}

\* str.lower() on the snap values of the model
Lower(s) == IF s \in {"True", "TRUE"} THEN "true" ELSE s

\* bug variant: a user preset replaces the built-in of the same name
MergePreset_Replace(name, cfg) ==
    IF name \in DOMAIN cfg THEN cfg[name]
    ELSE IF name \in DOMAIN BUILTIN_PRESETS THEN BUILTIN_PRESETS[name]
    ELSE <<>>

\* preset = {}; preset.update(builtin); preset.update(cfg)
MergePreset(name, cfg) ==
    LET b == IF name \in DOMAIN BUILTIN_PRESETS THEN BUILTIN_PRESETS[name]
             ELSE <<>>
        u == IF name \in DOMAIN cfg THEN cfg[name] ELSE <<>>
    IN  u @@ b

(* ---------- compositor state ---------- *)
Monitor0 == [id |-> 0, x |-> 0, y |-> 0, width |-> 1920, height |-> 1080]
Monitor1 == [id |-> 1, x |-> 1920, y |-> 0, width |-> 1280, height |-> 1024]
MonitorLists == {{Monitor0, Monitor1}, {Monitor1}}
\* the last window is tiled: it fills its monitor until it is floated
Windows ==
    {[monitor |-> 0, at |-> <<100, 50>>, size |-> <<800, 600>>,
      floating |-> TRUE],
     [monitor |-> 0, at |-> <<1900, 50>>, size |-> <<300, 300>>,
      floating |-> TRUE],
     [monitor |-> 0, at |-> <<-20, 900>>, size |-> <<2000, 1200>>,
      floating |-> TRUE],
     [monitor |-> 1, at |-> <<2000, 100>>, size |-> <<640, 480>>,
      floating |-> TRUE],
     [monitor |-> 1, at |-> <<1700, -30>>, size |-> <<401, 301>>,
      floating |-> TRUE],
     [monitor |-> 0, at |-> <<0, 0>>, size |-> <<1920, 1080>>,
      floating |-> FALSE]}

VARIABLES
    pc,           \* position of apply_preset
    preset_name,  \* argument
    cfg_presets,  \* argument
    client,       \* local: result of the latest get_client
    mon,          \* local: result of get_monitor_by_id
    preset,       \* local: merged preset
    W_px, H_px,   \* locals of the resize step
    final_x, final_y,  \* locals of the move step
    nx, ny,       \* locals of the snap step
    trace,        \* queries and dispatches issued so far, in order
    win,          \* compositor: the window, None once it is gone
    monitors,     \* compositor: the monitor list
    pending,      \* compositor: dispatches received and not yet applied
    call,         \* the invocation under way: the function and its inputs
    ret           \* what the finished invocations returned, in order

vars == <<pc, preset_name, cfg_presets, client, mon, preset, W_px, H_px,
          final_x, final_y, nx, ny, trace, win, monitors, pending, call, ret>>
locals == <<client, mon, preset, W_px, H_px, final_x, final_y, nx, ny>>
args == <<preset_name, cfg_presets>>
harness == <<call, ret>>

MutationOps == {"setfloating", "resizewindowpixel", "movewindowpixel"}
\* one entry of trace: the command, the step of the apply flow that issued
\* it, the arguments of a dispatch (a, b) and the answer to a query (res)
Ev(op, step, a, b, res) ==
    [op |-> op, step |-> step, a |-> a, b |-> b, res |-> res]
Found(ev) == ~IsNone(ev.res)

\* get_client: hyprctl -j clients, first entry with the address
get_client == win

\* get_monitor_by_id: hyprctl -j monitors, first entry with the id
get_monitor_by_id(mid) ==
    IF \E m \in monitors : m.id = mid
    THEN Some(CHOOSE m \in monitors : m.id = mid)
    ELSE None

mon_x == Val(mon).x
mon_y == Val(mon).y
mon_w == Val(mon).width
mon_h == Val(mon).height

Init ==
    /\ pc = "Start"
    /\ preset_name \in PresetNames
    /\ cfg_presets \in CfgFiles
    /\ win \in {None} \cup {Some(w) : w \in Windows}
    /\ monitors \in MonitorLists
    /\ pending = <<>>
    /\ trace = <<>>
    /\ client = None
    /\ mon = None
    /\ preset = <<>>
    /\ W_px = None
    /\ H_px = None
    /\ final_x = None
    /\ final_y = None
    /\ nx = None
    /\ ny = None
    /\ call = [fn |-> "apply", run |-> 1]
    /\ ret = <<>>

(* ---------- pure steps of apply_preset ---------- *)
HasKey(p, key) == key \in DOMAIN p
Get(p, key, default) == IF key \in DOMAIN p THEN p[key] ELSE default

\* bug variant: the width is resolved against the monitor height
ResolveW_WrongAxis(p, m, c) ==
    IF HasKey(p, "width") THEN compute_px(p["width"], "x", m.height, c.size[1])
    ELSE None

\* W_px / H_px before the refresh: compute_px against the size held in c
ResolveW(p, m, c) ==
    IF HasKey(p, "width") THEN compute_px(p["width"], "x", m.width, c.size[1])
    ELSE None
ResolveH(p, m, c) ==
    IF HasKey(p, "height")
    THEN compute_px(p["height"], "y", m.height, c.size[2])
    ELSE None

\* if W_px is None: W_px = cur_w
FillDim(px, cur) == IF IsNone(px) THEN Some(cur) ELSE px

\* bug variant: without x and anchor the window goes to the left edge
MoveX_DefaultLeft(p, m, c) ==
    LET win_w == c.size[1]
    IN  IF HasKey(p, "x")
        THEN LET px == compute_px(p["x"], "x", m.width, win_w)
             IN  IF IsNone(px) THEN None ELSE Some(m.x + Val(px))
        ELSE IF Get(p, "anchor", "") = "right"
        THEN Some(m.x + m.width - win_w)
        ELSE IF Get(p, "anchor", "") = "center"
        THEN Some(m.x + (m.width \div 2) - (win_w \div 2))
        ELSE Some(m.x)

\* final_x of the move step, from the refreshed client c
MoveX(p, m, c) ==
    LET win_w == c.size[1]
    IN  IF HasKey(p, "x")
        THEN LET px == compute_px(p["x"], "x", m.width, win_w)
             IN  IF IsNone(px) THEN None ELSE Some(m.x + Val(px))
        ELSE IF Get(p, "anchor", "") \in {"left", "right", "center"}
        THEN IF p["anchor"] = "left" THEN Some(m.x)
             ELSE IF p["anchor"] = "right" THEN Some(m.x + m.width - win_w)
             ELSE Some(m.x + (m.width \div 2) - (win_w \div 2))
        ELSE None

\* bug variant: a y offset is added to where the window is
MoveY_FromWindow(p, m, c) ==
    LET win_h == c.size[2]
    IN  IF HasKey(p, "y")
        THEN LET py == compute_px(p["y"], "y", m.height, win_h)
             IN  IF IsNone(py) THEN None ELSE Some(c.at[2] + Val(py))
        ELSE IF Get(p, "anchor", "") \in {"top", "bottom", "center"}
        THEN IF p["anchor"] = "top" THEN Some(m.y)
             ELSE IF p["anchor"] = "bottom" THEN Some(m.y + m.height - win_h)
             ELSE Some(m.y + (m.height \div 2) - (win_h \div 2))
        ELSE None

\* final_y of the move step
MoveY(p, m, c) ==
    LET win_h == c.size[2]
    IN  IF HasKey(p, "y")
        THEN LET py == compute_px(p["y"], "y", m.height, win_h)
             IN  IF IsNone(py) THEN None ELSE Some(m.y + Val(py))
        ELSE IF Get(p, "anchor", "") \in {"top", "bottom", "center"}
        THEN IF p["anchor"] = "top" THEN Some(m.y)
             ELSE IF p["anchor"] = "bottom" THEN Some(m.y + m.height - win_h)
             ELSE Some(m.y + (m.height \div 2) - (win_h \div 2))
        ELSE None

\* snap = preset.get("snap", "").lower() == "true"
SnapOn(p) == Lower(Get(p, "snap", "")) = "true"

\* bug variant: only the far edge is clamped
SnapCoord_NoLowerBound(lo, extent, cur, dim) == Min(cur, lo + extent - dim)

\* nx = max(mon_x, min(cx, mon_x + mon_w - cw))
SnapCoord(lo, extent, cur, dim) == Max(lo, Min(cur, lo + extent - dim))

(* ---------- hyprctl ---------- *)
\* hypr_dispatch: the command is issued; when hyprctl fails the error is
\* logged and the compositor never receives it
\* (res of the entry records whether hyprctl succeeded)
hypr_dispatch(ev, ok) ==
    /\ trace' = Append(trace, [ev EXCEPT !.res = Some(ok)])
    /\ pending' = IF ok THEN Append(pending, ev) ELSE pending

Query(op, step, res) == trace' = Append(trace, Ev(op, step, 0, 0, res))

(* ---------- apply_preset, step by step ---------- *)
\* bug variant: the window is floated before its existence is checked
GetClient_FloatFirst ==
    /\ pc = "Start"
    /\ client' = get_client
    /\ trace' = trace \o <<Ev("setfloating", "float", 0, 0, None),
                           Ev("clients", "start", 0, 0, get_client)>>
    /\ pending' = Append(pending, Ev("setfloating", "float", 0, 0, None))
    /\ pc' = IF IsNone(get_client) THEN "Aborted" ELSE "HaveClient"
    /\ UNCHANGED <<args, harness, mon, preset, W_px, H_px, final_x, final_y, nx, ny,
                   win, monitors>>

\* client = get_client(addr); if not client: return
GetClient ==
    /\ pc = "Start"
    /\ client' = get_client
    /\ Query("clients", "start", get_client)
    /\ pc' = IF IsNone(get_client) THEN "Aborted" ELSE "HaveClient"
    /\ UNCHANGED <<args, harness, mon, preset, W_px, H_px, final_x, final_y, nx, ny,
                   win, monitors, pending>>

\* mon = get_monitor_by_id(client["monitor"]); if not mon: return;
\* then the preset merge
GetMonitor ==
    /\ pc = "HaveClient"
    /\ LET m == get_monitor_by_id(Val(client).monitor)
       IN  /\ mon' = m
           /\ Query("monitors", "start", m)
           /\ pc' = IF IsNone(m) THEN "Aborted" ELSE "HaveMonitor"
           /\ preset' = IF IsNone(m) THEN preset
                        ELSE MergePreset(preset_name, cfg_presets)
    /\ UNCHANGED <<args, harness, client, W_px, H_px, final_x, final_y, nx, ny,
                   win, monitors, pending>>

\* hypr_dispatch(["setfloating", ...]); W_px / H_px from the client of the
\* first query
SetFloating ==
    /\ pc = "HaveMonitor"
    /\ \E ok \in BOOLEAN :
          hypr_dispatch(Ev("setfloating", "float", 0, 0, None), ok)
    /\ W_px' = ResolveW(preset, Val(mon), Val(client))
    /\ H_px' = ResolveH(preset, Val(mon), Val(client))
    /\ pc' = "Floated"
    /\ UNCHANGED <<args, harness, client, mon, preset, final_x, final_y, nx, ny,
                   win, monitors>>

\* bug variant: the refresh waits for the window instead of giving up
RefreshAfterFloat_WaitLoop ==
    /\ pc = "Floated"
    /\ client' = get_client
    /\ Query("clients", "resize", get_client)
    /\ IF IsNone(get_client)
       THEN /\ pc' = "Floated"
            /\ UNCHANGED <<W_px, H_px>>
       ELSE /\ pc' = "ResizeReady"
            /\ W_px' = FillDim(W_px, Val(get_client).size[1])
            /\ H_px' = FillDim(H_px, Val(get_client).size[2])
    /\ UNCHANGED <<args, harness, mon, preset, final_x, final_y, nx, ny,
                   win, monitors, pending>>

\* client = get_client(addr); if not client: return; fill W_px / H_px
RefreshAfterFloat ==
    /\ pc = "Floated"
    /\ client' = get_client
    /\ Query("clients", "resize", get_client)
    /\ IF IsNone(get_client)
       THEN /\ pc' = "Aborted"
            /\ UNCHANGED <<W_px, H_px>>
       ELSE /\ pc' = "ResizeReady"
            /\ W_px' = FillDim(W_px, Val(get_client).size[1])
            /\ H_px' = FillDim(H_px, Val(get_client).size[2])
    /\ UNCHANGED <<args, harness, mon, preset, final_x, final_y, nx, ny,
                   win, monitors, pending>>

\* bug variant: a failed resize dispatch ends the operation
Resize_AbortOnFailure ==
    /\ pc = "ResizeReady"
    /\ \E ok \in BOOLEAN :
          /\ hypr_dispatch(Ev("resizewindowpixel", "resize",
                              Val(W_px), Val(H_px), None), ok)
          /\ pc' = IF ok THEN "Resized" ELSE "Aborted"
    /\ UNCHANGED <<args, harness, locals, win, monitors>>

\* if W_px is not None and H_px is not None: dispatch resizewindowpixel
Resize ==
    /\ pc = "ResizeReady"
    /\ IF ~IsNone(W_px) /\ ~IsNone(H_px)
       THEN \E ok \in BOOLEAN :
               hypr_dispatch(Ev("resizewindowpixel", "resize",
                                Val(W_px), Val(H_px), None), ok)
       ELSE UNCHANGED <<trace, pending>>
    /\ pc' = "Resized"
    /\ UNCHANGED <<args, harness, locals, win, monitors>>

\* bug variant: a vanished window is not noticed, the previous snapshot
\* is used
RefreshAfterResize_NoCheck ==
    /\ pc = "Resized"
    /\ client' = IF IsNone(get_client) THEN client ELSE get_client
    /\ Query("clients", "move", get_client)
    /\ pc' = "MoveReady"
    /\ final_x' = MoveX(preset, Val(mon), Val(client'))
    /\ final_y' = MoveY(preset, Val(mon), Val(client'))
    /\ UNCHANGED <<args, harness, mon, preset, W_px, H_px, nx, ny,
                   win, monitors, pending>>

\* client = get_client(addr); if not client: return; final_x / final_y
RefreshAfterResize ==
    /\ pc = "Resized"
    /\ client' = get_client
    /\ Query("clients", "move", get_client)
    /\ IF IsNone(get_client)
       THEN /\ pc' = "Aborted"
            /\ UNCHANGED <<final_x, final_y>>
       ELSE /\ pc' = "MoveReady"
            /\ final_x' = MoveX(preset, Val(mon), Val(get_client))
            /\ final_y' = MoveY(preset, Val(mon), Val(get_client))
    /\ UNCHANGED <<args, harness, mon, preset, W_px, H_px, nx, ny,
                   win, monitors, pending>>

\* bug variant: the missing axis is filled with zero
Move_ZeroFill ==
    /\ pc = "MoveReady"
    /\ IF IsNone(final_x) /\ IsNone(final_y)
       THEN UNCHANGED <<trace, pending, final_x, final_y>>
       ELSE /\ final_x' = FillDim(final_x, 0)
            /\ final_y' = FillDim(final_y, 0)
            /\ \E ok \in BOOLEAN :
                  hypr_dispatch(Ev("movewindowpixel", "move",
                                   Val(final_x'), Val(final_y'), None), ok)
    /\ pc' = "Moved"
    /\ UNCHANGED <<args, harness, client, mon, preset, W_px, H_px, nx, ny,
                   win, monitors>>

\* if final_x is None and final_y is None: nothing; else fill the missing
\* axis from client["at"] and dispatch movewindowpixel
Move ==
    /\ pc = "MoveReady"
    /\ IF IsNone(final_x) /\ IsNone(final_y)
       THEN UNCHANGED <<trace, pending, final_x, final_y>>
       ELSE /\ final_x' = FillDim(final_x, Val(client).at[1])
            /\ final_y' = FillDim(final_y, Val(client).at[2])
            /\ \E ok \in BOOLEAN :
                  hypr_dispatch(Ev("movewindowpixel", "move",
                                   Val(final_x'), Val(final_y'), None), ok)
    /\ pc' = "Moved"
    /\ UNCHANGED <<args, harness, client, mon, preset, W_px, H_px, nx, ny,
                   win, monitors>>

\* bug variant: the snap step clamps the snapshot of the move step
\* without asking the compositor again
SnapQuery_NoRefetch ==
    /\ pc = "Moved"
    /\ IF SnapOn(preset)
       THEN /\ pc' = "SnapReady"
            /\ nx' = Some(SnapCoord(mon_x, mon_w, Val(client).at[1],
                                    Val(client).size[1]))
            /\ ny' = Some(SnapCoord(mon_y, mon_h, Val(client).at[2],
                                    Val(client).size[2]))
       ELSE /\ pc' = "Done"
            /\ UNCHANGED <<nx, ny>>
    /\ UNCHANGED <<args, harness, client, trace, mon, preset, W_px, H_px, final_x,
                   final_y, win, monitors, pending>>

\* if snap: client = get_client(addr); if not client: return; nx, ny
SnapQuery ==
    /\ pc = "Moved"
    /\ IF SnapOn(preset)
       THEN /\ client' = get_client
            /\ Query("clients", "snap", get_client)
            /\ IF IsNone(get_client)
               THEN /\ pc' = "Aborted"
                    /\ UNCHANGED <<nx, ny>>
               ELSE LET c == Val(get_client)
                    IN  /\ pc' = "SnapReady"
                        /\ nx' = Some(SnapCoord(mon_x, mon_w, c.at[1],
                                                c.size[1]))
                        /\ ny' = Some(SnapCoord(mon_y, mon_h, c.at[2],
                                                c.size[2]))
       ELSE /\ pc' = "Done"
            /\ UNCHANGED <<client, trace, nx, ny>>
    /\ UNCHANGED <<args, harness, mon, preset, W_px, H_px, final_x, final_y,
                   win, monitors, pending>>

\* bug variant: after a snap move the step is repeated until the window is
\* seen inside the monitor
SnapMove_Retry ==
    /\ pc = "SnapReady"
    /\ IF Val(nx) # Val(client).at[1] \/ Val(ny) # Val(client).at[2]
       THEN /\ \E ok \in BOOLEAN :
                  hypr_dispatch(Ev("movewindowpixel", "snap",
                                   Val(nx), Val(ny), None), ok)
            /\ pc' = "Moved"
       ELSE /\ UNCHANGED <<trace, pending>>
            /\ pc' = "Done"
    /\ UNCHANGED <<args, harness, locals, win, monitors>>

\* if nx != cx or ny != cy: dispatch movewindowpixel
SnapMove ==
    /\ pc = "SnapReady"
    /\ IF Val(nx) # Val(client).at[1] \/ Val(ny) # Val(client).at[2]
       THEN \E ok \in BOOLEAN :
               hypr_dispatch(Ev("movewindowpixel", "snap",
                                Val(nx), Val(ny), None), ok)
       ELSE UNCHANGED <<trace, pending>>
    /\ pc' = "Done"
    /\ UNCHANGED <<args, harness, locals, win, monitors>>

(* ---------- the compositor ---------- *)
\* a tiled window that is floated leaves the layout: it takes half of its
\* tiled size, centered on the tiled area
FloatGeometry(w) ==
    IF w.floating THEN w
    ELSE [w EXCEPT !.floating = TRUE,
                   !.size = <<w.size[1] \div 2, w.size[2] \div 2>>,
                   !.at = <<w.at[1] + (w.size[1] \div 4),
                            w.at[2] + (w.size[2] \div 4)>>]

\* effect of one dispatch on the window
ApplyDispatch(w, ev) ==
    CASE ev.op = "resizewindowpixel" -> [w EXCEPT !.size = <<ev.a, ev.b>>]
      [] ev.op = "movewindowpixel" -> [w EXCEPT !.at = <<ev.a, ev.b>>]
      [] ev.op = "setfloating" -> FloatGeometry(w)
      [] OTHER -> w

\* the compositor applies the oldest dispatch it has received
CompositorApply ==
    /\ pending # <<>>
    /\ pending' = Tail(pending)
    /\ win' = IF IsNone(win) THEN win
              ELSE Some(ApplyDispatch(Val(win), Head(pending)))
    /\ UNCHANGED <<pc, args, harness, locals, trace, monitors>>

\* the window is closed while the tool runs
WindowClose ==
    /\ ~IsNone(win)
    /\ win' = None
    /\ UNCHANGED <<pc, args, harness, locals, trace, monitors, pending>>

\* the steps of apply_preset
Apply ==
    \/ GetClient
    \/ GetMonitor
    \/ SetFloating
    \/ RefreshAfterFloat
    \/ Resize
    \/ RefreshAfterResize
    \/ Move
    \/ SnapQuery
    \/ SnapMove

Next ==
    \/ GetClient
    \/ GetMonitor
    \/ SetFloating
    \/ RefreshAfterFloat
    \/ Resize
    \/ RefreshAfterResize
    \/ Move
    \/ SnapQuery
    \/ SnapMove
    \/ CompositorApply
    \/ WindowClose

Spec == Init /\ [][Next]_vars

\* the process runs on: every hyprctl call returns and every sleep ends
FairSpec == Init /\ [][Next]_vars /\ WF_vars(Apply)

(* ---------- single calls: compute_px and the CLI's address ---------- *)
\* An address is the sequence of its characters.
Prefix0x == <<"0", "x">>
LowerChar(c) ==
    CASE c = "A" -> "a"
      [] c = "C" -> "c"
      [] c = "X" -> "x"
      [] OTHER -> c
\* str.lower()
AddrLower(a) == [i \in 1..Len(a) |-> LowerChar(a[i])]
\* str.startswith("0x")
StartsWith0x(a) == Len(a) >= 2 /\ SubSeq(a, 1, 2) = Prefix0x

\* main, "info": if not addr.startswith("0x"): addr = "0x" + addr
InfoAddress(a) == IF StartsWith0x(a) THEN a ELSE Prefix0x \o a

\* main, "apply" (addr is passed on as given), then apply_preset:
\* addr = address_in.lower(); if not addr.startswith("0x"): "0x" + addr
ApplyAddress(a) ==
    IF StartsWith0x(AddrLower(a)) THEN AddrLower(a)
    ELSE Prefix0x \o AddrLower(a)

\* the address the compositor lists the window under
ClientAddress == <<"0", "x", "a", "5", "c">>
\* get_client(address_full): the client whose address equals the argument
get_client_at(address_full) ==
    IF address_full = ClientAddress THEN win ELSE None

Addresses ==
    {<<"0", "x", "a", "5", "c">>, <<"a", "5", "c">>, <<"A", "5", "C">>,
     <<"0", "x", "A", "5", "C">>, <<"0", "X", "A", "5", "C">>,
     <<"0", "X", "a", "5", "c">>, <<"0", "x", "5", "5">>, <<"5", "5">>}
CallExprs ==
    {Pct(5), Num(120), Dec(25, 10), Width, Height, Empty, Malformed,
     Name("foo"), Call("__import__"), Compare(Num(1), Num(2)),
     Str("5"), Str("abc"), BinOp("Add", Str("5"), Num(1)),
     BinOp("Mult", Str("5"), Num(2)),
     BinOp("LShift", Num(5), Num(2)), BinOp("RShift", Width, Num(1)),
     BinOp("Sub", Pct(95), Width), BinOp("Div", Width, Num(2)),
     BinOp("FloorDiv", Width, Num(2)), BinOp("Mod", Width, Num(7)),
     BinOp("Pow", Num(2), Num(3)), BinOp("Div", Num(1), Num(0)),
     UnaryOp("USub", Num(40)), UnaryOp("UAdd", Pct(10)),
     BinOp("Sub", Name("right"), Pct(5)),
     BinOp("Sub", Name("right"), Pct(33)),
     BinOp("Sub", Name("bottom"), Pct(5)),
     BinOp("Sub", Name("bottom"), Pct(7)),
     BinOp("Sub", Name("right"), Dec(25, 10)),
     BinOp("Sub", Name("left"), Pct(5))}
CallMonDims == {1920, 1080}
CallWinDims == {800, 601, 2000}
Calls ==
    {[fn |-> "compute_px", expr |-> e, axis |-> ax, mon_dim |-> m,
      win_dim |-> w] :
        e \in CallExprs, ax \in {"x", "y"}, m \in CallMonDims,
        w \in CallWinDims}
    \cup {[fn |-> f, address |-> a] : f \in {"info", "apply"}, a \in Addresses}

\* one invocation with its inputs; the compositor holds one window
CallInit ==
    /\ pc = "Call"
    /\ call \in Calls
    /\ ret = <<>>
    /\ preset_name = "center"
    /\ cfg_presets = NoCfg
    /\ win \in {Some(w) : w \in Windows}
    /\ monitors = {Monitor0}
    /\ pending = <<>>
    /\ trace = <<>>
    /\ client = None
    /\ mon = None
    /\ preset = <<>>
    /\ W_px = None
    /\ H_px = None
    /\ final_x = None
    /\ final_y = None
    /\ nx = None
    /\ ny = None

\* compute_px(expr, axis, mon_dim, win_dim)
ComputePx ==
    /\ pc = "Call"
    /\ call.fn = "compute_px"
    /\ ret' = Append(ret,
                     [val |-> compute_px(call.expr, call.axis, call.mon_dim,
                                         call.win_dim),
                      evaluated |-> Evaluated(call.expr, call.axis,
                                              call.mon_dim, call.win_dim)])
    /\ pc' = "Returned"
    /\ UNCHANGED <<args, locals, call, trace, win, monitors, pending>>

\* main: cmd == "info"
Info ==
    /\ pc = "Call"
    /\ call.fn = "info"
    /\ ret' = Append(ret, [addr |-> InfoAddress(call.address),
                           client |-> get_client_at(InfoAddress(call.address))])
    /\ pc' = "Returned"
    /\ UNCHANGED <<args, locals, call, trace, win, monitors, pending>>

\* main: cmd == "apply", up to the first get_client of apply_preset
ApplyLookup ==
    /\ pc = "Call"
    /\ call.fn = "apply"
    /\ ret' = Append(ret, [addr |-> ApplyAddress(call.address),
                           client |-> get_client_at(ApplyAddress(call.address))])
    /\ pc' = "Returned"
    /\ UNCHANGED <<args, locals, call, trace, win, monitors, pending>>

CallNext ==
    \/ ComputePx
    \/ Info
    \/ ApplyLookup

CallSpec == CallInit /\ [][CallNext]_vars

(* ---------- two runs against a synchronous compositor ---------- *)
\* a step of apply_preset taken when the compositor has applied everything
\* it was sent, its dispatch reaching the compositor
SyncApply ==
    /\ pending = <<>>
    /\ Apply
    /\ \/ pending' # <<>>
       \/ trace' = trace
       \/ trace'[Len(trace')].op \notin MutationOps

\* the command is given a second time once the first run has ended; ret
\* keeps the window as the first run left it
Restart ==
    /\ pc \in {"Done", "Aborted"}
    /\ pending = <<>>
    /\ call.run = 1
    /\ call' = [call EXCEPT !.run = 2]
    /\ ret' = Append(ret, win)
    /\ pc' = "Start"
    /\ trace' = <<>>
    /\ client' = None
    /\ mon' = None
    /\ preset' = <<>>
    /\ W_px' = None
    /\ H_px' = None
    /\ final_x' = None
    /\ final_y' = None
    /\ nx' = None
    /\ ny' = None
    /\ UNCHANGED <<args, win, monitors, pending>>

SyncNext ==
    \/ SyncApply
    \/ CompositorApply
    \/ Restart

SyncSpec == Init /\ [][SyncNext]_vars

(* ---------- vocabulary of the properties ---------- *)
Terminal == {"Done", "Aborted"}
IsMutation(ev) == ev.op \in MutationOps
Mutations(t) == SelectSeq(t, IsMutation)
IsStepMove(ev) == ev.op = "movewindowpixel" /\ ev.step = "move"
IsSnapMove(ev) == ev.op = "movewindowpixel" /\ ev.step = "snap"
IsResize(ev) == ev.op = "resizewindowpixel"
IsClientQuery(ev) == ev.op = "clients"

\* the preset apply_preset works with, known from the arguments alone
Merged == MergePreset(preset_name, cfg_presets)

MutRank(ev) ==
    CASE ev.op = "setfloating" -> 1
      [] ev.op = "resizewindowpixel" -> 2
      [] IsStepMove(ev) -> 3
      [] OTHER -> 4

PcRank(p) ==
    CASE p = "Start" -> 0
      [] p = "HaveClient" -> 1
      [] p = "HaveMonitor" -> 2
      [] p = "Floated" -> 3
      [] p = "ResizeReady" -> 4
      [] p = "Resized" -> 5
      [] p = "MoveReady" -> 6
      [] p = "Moved" -> 7
      [] p = "SnapReady" -> 8
      [] OTHER -> 9

MutationsInOrder(t) ==
    LET ms == Mutations(t)
    IN  \A i, j \in DOMAIN ms : i < j => MutRank(ms[i]) < MutRank(ms[j])

\* C1: the mutations of one apply operation are issued in the order
\* set-floating, resize, move, snap-move, each at most once; the operation
\* never returns to an earlier step; after Done or Aborted nothing more is
\* issued.
C1_FixedOrder ==
    [][/\ MutationsInOrder(trace')
       /\ PcRank(pc') >= PcRank(pc)
       /\ pc \in Terminal => (pc' = pc /\ trace' = trace)]_vars

C1_Witness ==
    /\ pc = "Done"
    /\ Len(Mutations(trace)) = 4
    /\ pending = <<>>

\* C2: when the first client query finds no window, or the monitor query
\* finds no monitor, the operation is aborted and no mutation was issued.
C2_LookupFailureNoMutation ==
    (\E i \in DOMAIN trace : trace[i].step = "start" /\ ~Found(trace[i]))
        => /\ pc = "Aborted"
           /\ Mutations(trace) = <<>>
           /\ pending = <<>>

C2_Witness ==
    /\ pc = "Aborted"
    /\ Len(trace) = 2
    /\ Found(trace[1])
    /\ trace[2].op = "monitors"
    /\ ~Found(trace[2])

\* C3: when the client query after the resize mutation reports the window
\* absent, the operation is aborted and neither the move nor the snap move
\* is issued.
C3_VanishedAfterResize ==
    (\E i \in DOMAIN trace :
        IsClientQuery(trace[i]) /\ trace[i].step = "move" /\ ~Found(trace[i]))
        => /\ pc = "Aborted"
           /\ \A j \in DOMAIN trace : trace[j].op # "movewindowpixel"

C3_Witness ==
    /\ pc = "Aborted"
    /\ \E i \in DOMAIN trace : IsResize(trace[i])
    /\ IsClientQuery(trace[Len(trace)])
    /\ trace[Len(trace)].step = "move"
    /\ ~Found(trace[Len(trace)])
    /\ HasKey(Merged, "anchor")

\* C4: every mutation is preceded by a client query that found the window,
\* with no other mutation between that query and the mutation.
C4_QueryBeforeMutation ==
    \A i \in DOMAIN trace :
        IsMutation(trace[i]) =>
            \E j \in 1..(i - 1) :
                /\ IsClientQuery(trace[j])
                /\ Found(trace[j])
                /\ \A k \in (j + 1)..(i - 1) : ~IsMutation(trace[k])

C4_Witness ==
    /\ pc = "Done"
    /\ \E i \in DOMAIN trace : IsSnapMove(trace[i])
    /\ \E i \in DOMAIN trace : IsStepMove(trace[i])

\* the answer of the client query made by a step, and what was dispatched
QueryRes(step) ==
    LET i == CHOOSE i \in DOMAIN trace :
                 IsClientQuery(trace[i]) /\ trace[i].step = step
    IN  Val(trace[i].res)
ActualResize ==
    IF \E i \in DOMAIN trace : IsResize(trace[i])
    THEN LET i == CHOOSE i \in DOMAIN trace : IsResize(trace[i])
         IN  Some(<<trace[i].a, trace[i].b>>)
    ELSE None
ActualMove ==
    IF \E i \in DOMAIN trace : IsStepMove(trace[i])
    THEN LET i == CHOOSE i \in DOMAIN trace : IsStepMove(trace[i])
         IN  Some(<<trace[i].a, trace[i].b>>)
    ELSE None
SnapEvents == SelectSeq(trace, LAMBDA e : e.step = "snap")

\* C5: a merged preset with neither width nor height issues no resize
\* mutation (an empty preset issues set-floating only).
C5_NoResizeWithoutSize ==
    (~HasKey(Merged, "width") /\ ~HasKey(Merged, "height"))
        => \A i \in DOMAIN trace : ~IsResize(trace[i])

\* C6: a preset with none of the fields x, y and anchor issues no move
\* mutation in the move step.
C6_NoMoveWithoutPosition ==
    (~HasKey(Merged, "x") /\ ~HasKey(Merged, "y") /\ ~HasKey(Merged, "anchor"))
        => \A i \in DOMAIN trace : ~IsStepMove(trace[i])

C6_Witness ==
    /\ pc = "Done"
    /\ ~HasKey(Merged, "x")
    /\ ~HasKey(Merged, "y")
    /\ ~HasKey(Merged, "anchor")
    /\ \E i \in DOMAIN trace : IsSnapMove(trace[i])
    /\ ActualMove = None

\* snap is the boolean true (the config text in any letter case)
SnapIsTrue(p) == HasKey(p, "snap") /\ p["snap"] \in {"true", "True", "TRUE"}

\* clamp of v into the interval [lo, hi], lo <= hi
ClampInto(v, lo, hi) == IF v < lo THEN lo ELSE IF v > hi THEN hi ELSE v

\* target of the snap on one axis; a window larger than the monitor leaves
\* no interval and is put at the monitor origin
SnapTarget(cur, lo, extent, dim) ==
    IF dim <= extent THEN ClampInto(cur, lo, lo + extent - dim) ELSE lo

\* C7: with snap true the snap step makes one client query and, with (tx, ty)
\* the clamp of the queried position into the monitor, exactly one move to
\* (tx, ty) when it differs from the queried position and none when it is
\* equal; without snap the step makes no query and no mutation.
C7_SnapStep ==
    pc = "Done" =>
        IF SnapIsTrue(Merged)
        THEN /\ Len(SnapEvents) >= 1
             /\ IsClientQuery(SnapEvents[1])
             /\ Found(SnapEvents[1])
             /\ LET c == Val(SnapEvents[1].res)
                    m == Val(mon)
                    tx == SnapTarget(c.at[1], m.x, m.width, c.size[1])
                    ty == SnapTarget(c.at[2], m.y, m.height, c.size[2])
                IN  IF <<tx, ty>> # c.at
                    THEN /\ Len(SnapEvents) = 2
                         /\ IsSnapMove(SnapEvents[2])
                         /\ SnapEvents[2].a = tx
                         /\ SnapEvents[2].b = ty
                    ELSE Len(SnapEvents) = 1
        ELSE SnapEvents = <<>>

\* the clamp of the window at (1900, 50), size 300x300, on the 1920x1080
\* monitor: x becomes 1620, y stays 50
C7_Witness ==
    /\ pc = "Done"
    /\ Len(SnapEvents) = 2
    /\ Val(SnapEvents[1].res).at = <<1900, 50>>
    /\ Val(SnapEvents[1].res).size = <<300, 300>>
    /\ SnapEvents[2].a = 1620
    /\ SnapEvents[2].b = 50

BigOnFullHD ==
    /\ pc = "Done"
    /\ Merged = [width |-> Pct(70), height |-> Pct(70), anchor |-> "center",
                 snap |-> "true"]
    /\ Val(mon) = Monitor0

\* C8 as stated: the preset {70%, 70%, center, snap} on the 1920x1080
\* monitor at (0,0) resizes to 1344x756 and moves to (288, 162), whatever
\* the window.
C8_AsStated ==
    BigOnFullHD => /\ ActualResize = Some(<<1344, 756>>)
                   /\ ActualMove = Some(<<288, 162>>)

\* C8: the preset {70%, 70%, center, snap} on the 1920x1080 monitor at
\* (0,0) resizes to 1344x756 and moves to the position that centers the size
\* reported by the query after the resize, which is (288, 162) when that
\* query reports 1344x756.
C8_BigPreset ==
    BigOnFullHD =>
        LET q == QueryRes("move")
        IN  /\ ActualResize = Some(<<1344, 756>>)
            /\ ActualMove = Some(<<960 - (q.size[1] \div 2),
                                   540 - (q.size[2] \div 2)>>)
            /\ q.size = <<1344, 756>> => ActualMove = Some(<<288, 162>>)

C8_Witness ==
    /\ BigOnFullHD
    /\ QueryRes("move").size = <<1344, 756>>
    /\ ActualMove = Some(<<288, 162>>)

\* what apply_preset dispatches for a preset p given the answers to its
\* queries
ExpectedResize(p, m, q1, q2) ==
    Some(<<Val(FillDim(ResolveW(p, m, q1), q2.size[1])),
           Val(FillDim(ResolveH(p, m, q1), q2.size[2]))>>)
ExpectedMove(p, m, q3) ==
    LET fx == MoveX(p, m, q3)
        fy == MoveY(p, m, q3)
    IN  IF IsNone(fx) /\ IsNone(fy) THEN None
        ELSE Some(<<Val(FillDim(fx, q3.at[1])), Val(FillDim(fy, q3.at[2]))>>)

Remove(p, f) == [key \in DOMAIN p \ {f} |-> p[key]]

\* the field f of p is present and its expression evaluates to no value
NoValue(p, f, m, q1, q3) ==
    /\ HasKey(p, f)
    /\ CASE f = "width" -> IsNone(compute_px(p[f], "x", m.width, q1.size[1]))
         [] f = "height" -> IsNone(compute_px(p[f], "y", m.height, q1.size[2]))
         [] f = "x" -> IsNone(compute_px(p[f], "x", m.width, q3.size[1]))
         [] OTHER -> IsNone(compute_px(p[f], "y", m.height, q3.size[2]))

\* C9: a field among width, height, x, y whose expression evaluates to no
\* value is treated as unset: the resize and the move dispatched are those
\* of the same preset with the field removed, and the operation is not
\* aborted by it.
C9_NoValueAsUnset ==
    pc \in {"Moved", "SnapReady", "Done"} =>
        \A f \in {"width", "height", "x", "y"} :
            NoValue(Merged, f, Val(mon), QueryRes("start"), QueryRes("move"))
                => /\ ActualResize =
                        ExpectedResize(Remove(Merged, f), Val(mon),
                                       QueryRes("start"), QueryRes("resize"))
                   /\ ActualMove =
                        ExpectedMove(Remove(Merged, f), Val(mon),
                                     QueryRes("move"))

\* C10: every width and height sent in the resize mutation, and every x / y
\* offset compute_px resolves for the move, is a non-negative integer.
C10_NonNegative ==
    /\ \A i \in DOMAIN trace :
          IsResize(trace[i]) => trace[i].a >= 0 /\ trace[i].b >= 0
    /\ pc \in {"MoveReady", "Moved", "SnapReady", "Done"} =>
          LET m == Val(mon)
              q == QueryRes("move")
              px == IF HasKey(preset, "x")
                    THEN compute_px(preset["x"], "x", m.width, q.size[1])
                    ELSE None
              py == IF HasKey(preset, "y")
                    THEN compute_px(preset["y"], "y", m.height, q.size[2])
                    ELSE None
          IN  /\ ~IsNone(px) => Val(px) >= 0
              /\ ~IsNone(py) => Val(py) >= 0

\* C11: the width and height expressions are evaluated with win_dim taken
\* from the client query made after set-floating (the latest one before the
\* resize), and the resize carries both dimensions, an unconstrained one
\* being the current size from that same query.
C11_LatestSizeForResize ==
    ~IsNone(ActualResize) =>
        ActualResize = ExpectedResize(Merged, Val(mon), QueryRes("resize"),
                                      QueryRes("resize"))

\* C12: the merged preset is the built-in preset of the name (empty if
\* none) overlaid field by field with the user preset of the same name: a
\* field of the user preset has the user's value, any other built-in field
\* keeps the built-in value.
C12_FieldwiseOverlay ==
    ~IsNone(mon) =>
        LET b == IF preset_name \in DOMAIN BUILTIN_PRESETS
                 THEN BUILTIN_PRESETS[preset_name] ELSE <<>>
            u == IF preset_name \in DOMAIN cfg_presets
                 THEN cfg_presets[preset_name] ELSE <<>>
        IN  /\ DOMAIN preset = DOMAIN b \cup DOMAIN u
            /\ \A f \in DOMAIN preset :
                  preset[f] = IF f \in DOMAIN u THEN u[f] ELSE b[f]

\* user [big] snap=false: width, height and anchor of the built-in, no snap
C12_Witness ==
    /\ pc = "Done"
    /\ preset_name = "big"
    /\ cfg_presets = UserCfg
    /\ preset = [width |-> Pct(70), height |-> Pct(70), anchor |-> "center",
                 snap |-> "false"]
    /\ SnapEvents = <<>>

Last(t) == t[Len(t)]
StepAfterDispatch(p) ==
    CASE p = "HaveMonitor" -> "Floated"
      [] p = "ResizeReady" -> "Resized"
      [] p = "MoveReady" -> "Moved"
      [] OTHER -> "Done"

\* the arguments of the resize and of the move are those computed from the
\* answers to the queries
DispatchesFollowQueries ==
    /\ ~IsNone(ActualResize) =>
          ActualResize = ExpectedResize(Merged, Val(mon), QueryRes("start"),
                                        QueryRes("resize"))
    /\ pc \in {"Moved", "SnapReady", "Done"} =>
          ActualMove = ExpectedMove(Merged, Val(mon), QueryRes("move"))

C17_UnresolvedAxisKeepsLivePosition ==
    ~IsNone(ActualMove) =>
        LET q == QueryRes("move")
            fx == MoveX(Merged, Val(mon), q)
            fy == MoveY(Merged, Val(mon), q)
        IN  /\ IsNone(fx) => Val(ActualMove)[1] = q.at[1]
            /\ IsNone(fy) => Val(ActualMove)[2] = q.at[2]

\* the tiled window was floated between the first query and the query after
\* the resize: its x is neither zero nor the x of the first query
C17_Witness ==
    /\ pc = "Done"
    /\ ~IsNone(ActualMove)
    /\ IsNone(MoveX(Merged, Val(mon), QueryRes("move")))
    /\ QueryRes("move").at[1] # 0
    /\ QueryRes("move").at[1] # QueryRes("start").at[1]
    /\ Val(ActualMove)[1] = QueryRes("move").at[1]

AllDispatchesOk ==
    \A i \in DOMAIN trace : IsMutation(trace[i]) => trace[i].res = Some(TRUE)
Fits(w, m) ==
    /\ w.size[1] >= 0
    /\ w.size[2] >= 0
    /\ w.size[1] <= m.width
    /\ w.size[2] <= m.height
Inside(w, m) ==
    /\ w.at[1] >= m.x
    /\ w.at[2] >= m.y
    /\ w.at[1] + w.size[1] <= m.x + m.width
    /\ w.at[2] + w.size[2] <= m.y + m.height

\* C19: with snap true and a window no larger than the monitor, once the
\* operation is Done and every mutation it issued has taken effect in issue
\* order, the window lies inside the monitor, however late the compositor
\* applied each mutation.
C19_InsideAfterSnap ==
    (/\ pc = "Done"
     /\ pending = <<>>
     /\ SnapIsTrue(Merged)
     /\ AllDispatchesOk
     /\ ~IsNone(win)
     /\ Fits(Val(win), Val(mon)))
        => Inside(Val(win), Val(mon))

Count(t, Test(_)) == Len(SelectSeq(t, Test))
IsMonitorQuery(ev) == ev.op = "monitors"

\* C14: every apply operation reaches Done or Aborted, after at most four
\* client queries, one monitor query and four mutations.
C14_Terminates ==
    /\ <>(pc \in Terminal)
    /\ [](/\ Count(trace, IsClientQuery) <= 4
          /\ Count(trace, IsMonitorQuery) <= 1
          /\ Count(trace, IsMutation) <= 4)

C14_Witness ==
    /\ pc = "Done"
    /\ Count(trace, IsClientQuery) = 4
    /\ Count(trace, IsMonitorQuery) = 1
    /\ Count(trace, IsMutation) = 4

\* the constructs the evaluator is documented to accept
ArithmeticOps == {"Add", "Sub", "Mult", "Div", "FloorDiv", "Mod", "Pow"}
SignOps == {"USub", "UAdd"}
RECURSIVE OnlyArithmetic(_)
OnlyArithmetic(e) ==
    CASE e.k = "Num" -> TRUE
      [] e.k = "BinOp" -> /\ e.op \in ArithmeticOps
                          /\ OnlyArithmetic(e.l)
                          /\ OnlyArithmetic(e.r)
      [] e.k = "UnaryOp" -> e.op \in SignOps /\ OnlyArithmetic(e.e)
      [] OTHER -> FALSE

\* C15: an expression handed to the evaluator that, after the substitution,
\* holds anything but numeric literals, + - * / // % **, unary + - (a name,
\* a call, a comparison, a string literal, a shift) gives "no value" and
\* is never evaluated.
C15_OnlyArithmeticEvaluated ==
    (/\ pc = "Returned"
     /\ call.fn = "compute_px"
     /\ Generic(call.expr, call.axis)
     /\ ~OnlyArithmetic(Rewrite(call.expr, call.mon_dim, call.win_dim)))
        => Last(ret) = [val |-> None, evaluated |-> FALSE]

\* r is (one of) the nearest integers to
\* (mon_dim - win_dim) - N/100 * mon_dim, N the percentage of e
NearestToShorthand(r, e, mon_dim, win_dim) ==
    LET num == (mon_dim - win_dim) * 100 * e.r.d - e.r.n * mon_dim
        den == 100 * e.r.d
    IN  2 * Abs(r * den - num) <= den

\* C16: right-N% gives (mon_dim - win_dim) - N/100*mon_dim on axis x and no
\* value on axis y; bottom-N% gives the same formula on axis y and no value
\* on axis x.
C16_ShorthandAxis ==
    (pc = "Returned" /\ call.fn = "compute_px") =>
        LET val == Last(ret).val
            OnAxis(ax) ==
                IF call.axis = ax
                THEN /\ ~IsNone(val)
                     /\ NearestToShorthand(Val(val), call.expr, call.mon_dim,
                                           call.win_dim)
                ELSE IsNone(val)
        IN  /\ IsShorthand(call.expr, "right") => OnAxis("x")
            /\ IsShorthand(call.expr, "bottom") => OnAxis("y")

C16_Witness ==
    /\ pc = "Returned"
    /\ call = [fn |-> "compute_px", expr |-> BinOp("Sub", Name("right"), Pct(5)),
               axis |-> "x", mon_dim |-> 1920, win_dim |-> 800]
    /\ Last(ret).val = Some(1024)

\* the lowercase hex string with a single 0x prefix
Canonical(a) ==
    LET l == AddrLower(a)
    IN  IF StartsWith0x(l) THEN l ELSE Prefix0x \o l

\* C18: info and apply look the window up under the same normalized
\* address, the lowercase hex string with a single 0x prefix, however the
\* address was given.
C18_NormalizedAddress ==
    (pc = "Returned" /\ call.fn \in {"info", "apply"}) =>
        Last(ret).addr = Canonical(call.address)

RECURSIVE Mentions(_, _)
Mentions(e, leaf) ==
    CASE e.k = "BinOp" -> Mentions(e.l, leaf) \/ Mentions(e.r, leaf)
      [] e.k = "UnaryOp" -> Mentions(e.e, leaf)
      [] OTHER -> e.k = leaf
\* the width and height expressions of p do not use the tokens width, height
SizeFromMonitorOnly(p) ==
    \A key \in {"width", "height"} \cap DOMAIN p :
        ~Mentions(p[key], "Width") /\ ~Mentions(p[key], "Height")

\* C20: with every mutation applied exactly and before the next query, and
\* a preset whose width and height do not reference width or height, a
\* second apply of the same preset leaves the window with the size and
\* position the first apply gave it.
C20_SecondApplyChangesNothing ==
    (/\ call.run = 2
     /\ pc \in Terminal
     /\ pending = <<>>
     /\ SizeFromMonitorOnly(Merged)
     /\ ~IsNone(win))
        => /\ Val(win).size = Val(ret[1]).size
           /\ Val(win).at = Val(ret[1]).at

C20_Witness ==
    /\ call.run = 2
    /\ pc = "Done"
    /\ pending = <<>>
    /\ SizeFromMonitorOnly(Merged)
    /\ HasKey(Merged, "y")
    /\ \E i \in DOMAIN trace : IsResize(trace[i])
    /\ \E i \in DOMAIN trace : IsSnapMove(trace[i])
    /\ Val(win).size = Val(ret[1]).size
    /\ Val(win).at = Val(ret[1]).at

====
